---- MODULE Spec2Model ----
(***************************************************************************)
(* Model of shutter_validation.ino: an Arduino sketch that cycles a        *)
(* solenoid shutter (one slow toggle, a burst of fast toggles, a rest),    *)
(* validates the commanded state against a beam-break sensor once the      *)
(* shutter has settled, samples temperature/current, and spins forever on  *)
(* the first mismatch.                                                     *)
(*                                                                         *)
(* One step of the model is one call of setup(), one pass of loop(), or    *)
(* one turn of the while(true) spin.  millis() is read once per pass: the  *)
(* variable clock holds the value every millis() call of the next pass     *)
(* returns, and the pass ends by letting d milliseconds elapse.            *)
(***************************************************************************)
EXTENDS Integers, Sequences, FiniteSets, TLC

VARIABLES
    pc,                          \* "setup", "loop" or "halted" (the while(true) of line 127)
    clock,                       \* millis()
    cfg,                         \* the timing #defines of lines 19-26
    b_SB_shutter_open,           \* line 41
    b_shutter_just_changed,      \* line 43
    u32_shutter_toggle_timeout,  \* line 48
    u32_validation_timeout,      \* line 49
    u32_sampling_timeout,        \* line 50
    u32_consecutive_successes,   \* line 53
    f_temp_F,                    \* line 54
    f_current_mA,                \* line 55
    CurrentState,                \* line 61
    u32_long_toggle_timer,       \* line 274
    u32_short_toggle_timer,      \* line 275
    u8_toggle_counter,           \* line 276
    beam,                        \* BEAMBREAK_PIN: TRUE when the sensor sees the shutter open
    solenoid,                    \* SOLENOID_CTRL_PIN: its level and the number of writes to it
    serial,                      \* what was printed: header, data records, fatal messages
    ev,                          \* history: what the last pass of loop() did
    burst,                       \* history: toggles done in Stage3 since Stage3 was entered
    cycles,                      \* history: number of Stage4 -> Stage1 transitions
    matches,                     \* history: number of comparisons that found a match
    t_setup,                     \* history: millis() at the call of setup()
    last_compare                 \* history: millis() at the latest comparison, -1 before the first

vars == <<pc, clock, cfg, b_SB_shutter_open, b_shutter_just_changed,
          u32_shutter_toggle_timeout, u32_validation_timeout, u32_sampling_timeout,
          u32_consecutive_successes, f_temp_F, f_current_mA, CurrentState,
          u32_long_toggle_timer, u32_short_toggle_timer, u8_toggle_counter,
          beam, solenoid, serial, ev, burst, cycles, matches, t_setup,
          last_compare>>

-----------------------------------------------------------------------------
(* Bounds of the model *)

MaxTime == 14        \* clock values explored by Spec
MaxStep == 2         \* milliseconds that may elapse between two passes of loop()
MaxBoot == 1         \* millis() at the call of setup()
BurstTime == 264     \* clock values explored by SpecBurst in the long bursts
LiveTime == 20       \* clock values explored by SpecLive
ScenarioTime == 1055 \* clock values explored by SpecScenario
StuckTime == 1100    \* clock values explored by SpecStuckOpen
SourceTime == 1800   \* clock values explored by SpecSource
WrapModulus == 64    \* SpecWrap: the modulus standing for 2^32 in the timer sums
WrapLead == 12       \* SpecWrap: the program starts this long before millis() wraps
U32Modulus == 1073741824   \* stands for 2^32 (uint32_t)

(* Program constants, lines 21-26 *)
SHUTTER_WAIT_TIMEOUT_MS == 20
TOGGLE_COUNTER_THRESH == 60
LONG_TOGGLE_TIME == 125
SHORT_TOGGLE_TIME == 12
VALIDATION_LOOP_PERIOD == 100
SAMPLE_LOOP_PERIOD == 100

(* lines 33-35, 29 *)
u16_R_DIVIDER == 3266
u16_ANALOG_MAX == 1023

TwoTo8 == 256             \* uint8_t, line 276

(* uint32_t arithmetic wraps at 2^32, which is beyond the integers TLC       *)
(* computes with; the modulus is a field of cfg, U32Modulus where the clock  *)
(* stays far from the wrap.                                                  *)
Add32_NoWrap(a, b) == a + b

Add32(a, b) == (a + b) % cfg.wrap

TestState == {"Stage1", "Stage2", "Stage3", "Stage4", "Stage5"}

(* The #defines as a record, so that the scenario of the specification and    *)
(* small periods can be explored with the same code.                          *)
Config(wait, thresh, long, short, val, samp) ==
    [wait_ms |-> wait, thresh |-> thresh, long_time |-> long,
     short_time |-> short, val_period |-> val, sample_period |-> samp,
     wrap |-> U32Modulus]

SourceConfig_ShortSlow ==
    Config(SHUTTER_WAIT_TIMEOUT_MS, TOGGLE_COUNTER_THRESH, SHUTTER_WAIT_TIMEOUT_MS + 5,
           SHORT_TOGGLE_TIME, VALIDATION_LOOP_PERIOD, SAMPLE_LOOP_PERIOD)

SourceConfig ==
    Config(SHUTTER_WAIT_TIMEOUT_MS, TOGGLE_COUNTER_THRESH, LONG_TOGGLE_TIME,
           SHORT_TOGGLE_TIME, VALIDATION_LOOP_PERIOD, SAMPLE_LOOP_PERIOD)

-----------------------------------------------------------------------------
(* The memory of the sketch as one record, threaded through the functions.   *)

Mem ==
    [pc |-> pc,
     b_SB_shutter_open |-> b_SB_shutter_open,
     b_shutter_just_changed |-> b_shutter_just_changed,
     u32_shutter_toggle_timeout |-> u32_shutter_toggle_timeout,
     u32_validation_timeout |-> u32_validation_timeout,
     u32_sampling_timeout |-> u32_sampling_timeout,
     u32_consecutive_successes |-> u32_consecutive_successes,
     f_temp_F |-> f_temp_F,
     f_current_mA |-> f_current_mA,
     CurrentState |-> CurrentState,
     u32_long_toggle_timer |-> u32_long_toggle_timer,
     u32_short_toggle_timer |-> u32_short_toggle_timer,
     u8_toggle_counter |-> u8_toggle_counter,
     solenoid |-> solenoid,
     serial |-> serial,
     ev |-> ev]

Store(m) ==
    /\ pc' = m.pc
    /\ b_SB_shutter_open' = m.b_SB_shutter_open
    /\ b_shutter_just_changed' = m.b_shutter_just_changed
    /\ u32_shutter_toggle_timeout' = m.u32_shutter_toggle_timeout
    /\ u32_validation_timeout' = m.u32_validation_timeout
    /\ u32_sampling_timeout' = m.u32_sampling_timeout
    /\ u32_consecutive_successes' = m.u32_consecutive_successes
    /\ f_temp_F' = m.f_temp_F
    /\ f_current_mA' = m.f_current_mA
    /\ CurrentState' = m.CurrentState
    /\ u32_long_toggle_timer' = m.u32_long_toggle_timer
    /\ u32_short_toggle_timer' = m.u32_short_toggle_timer
    /\ u8_toggle_counter' = m.u8_toggle_counter
    /\ solenoid' = m.solenoid
    /\ serial' = m.serial
    /\ ev' = m.ev

(* What one pass did.  cmd: "none", "toggle" (v_toggle) or "open"           *)
(* (v_open_shutter); compared: b_validate_shutter_state was called; cleared: *)
(* the settle gate cleared b_shutter_just_changed; sampled: v_log_data was   *)
(* called.  now, pending, stage, sensed, short_timer, commanded: millis(),   *)
(* b_shutter_just_changed, CurrentState, the beam-break level,               *)
(* u32_short_toggle_timer and b_SB_shutter_open when the pass began.         *)
NoEvent ==
    [now |-> clock, pending |-> b_shutter_just_changed, stage |-> CurrentState,
     sensed |-> beam, short_timer |-> u32_short_toggle_timer,
     commanded |-> b_SB_shutter_open, cleared |-> FALSE,
     compared |-> FALSE, sampled |-> FALSE, cmd |-> "none"]

-----------------------------------------------------------------------------
(* digitalWrite(SOLENOID_CTRL_PIN, level) *)
digitalWrite(m, level) ==
    [m EXCEPT !.solenoid = [level |-> level, writes |-> @.writes + 1]]

v_toggle_NoCount(m, now) ==
    LET w == digitalWrite(m, ~m.b_SB_shutter_open)
    IN  [w EXCEPT !.b_SB_shutter_open = ~m.b_SB_shutter_open,
                  !.b_shutter_just_changed = TRUE,
                  !.u32_shutter_toggle_timeout = Add32(now, cfg.wait_ms),
                  !.ev.cmd = "toggle"]

v_toggle_NoArm(m, now) ==
    LET w == digitalWrite(m, ~m.b_SB_shutter_open)
    IN  [w EXCEPT !.b_SB_shutter_open = ~m.b_SB_shutter_open,
                  !.u32_shutter_toggle_timeout = Add32(now, cfg.wait_ms),
                  !.u32_consecutive_successes = Add32(@, 1),
                  !.ev.cmd = "toggle"]

(* v_toggle, lines 177-200 *)
v_toggle(m, now) ==
    LET w == digitalWrite(m, ~m.b_SB_shutter_open)
    IN  [w EXCEPT !.b_SB_shutter_open = ~m.b_SB_shutter_open,
                  !.b_shutter_just_changed = TRUE,
                  !.u32_shutter_toggle_timeout = Add32(now, cfg.wait_ms),
                  !.u32_consecutive_successes = Add32(@, 1),
                  !.ev.cmd = "toggle"]

v_open_shutter_Flip(m, now) ==
    LET w == digitalWrite(m, ~m.b_SB_shutter_open)
    IN  [w EXCEPT !.b_SB_shutter_open = ~m.b_SB_shutter_open,
                  !.b_shutter_just_changed = TRUE,
                  !.u32_shutter_toggle_timeout = Add32(now, cfg.wait_ms),
                  !.u32_consecutive_successes = Add32(@, 1),
                  !.ev.cmd = "open"]

(* v_open_shutter, lines 253-265 *)
v_open_shutter(m, now) ==
    LET w == digitalWrite(m, TRUE)
    IN  [w EXCEPT !.b_SB_shutter_open = TRUE,
                  !.b_shutter_just_changed = TRUE,
                  !.u32_shutter_toggle_timeout = Add32(now, cfg.wait_ms),
                  !.u32_consecutive_successes = Add32(@, 1),
                  !.ev.cmd = "open"]

b_validate_shutter_state_OneWay(m, sensed) ==
    m.b_SB_shutter_open => sensed

(* b_validate_shutter_state, lines 162-172; sensed is digitalRead(BEAMBREAK_PIN) *)
b_validate_shutter_state(m, sensed) ==
    m.b_SB_shutter_open = sensed

(* v_update_temp, lines 205-216.  The integer part is computed as the code   *)
(* computes it; the float Steinhart-Hart step (log) is left symbolic, so     *)
(* f_temp_F holds the thermistor resistance the temperature is computed from.*)
(* A raw reading equal to u16_ANALOG_MAX divides by zero in the code and is  *)
(* not among the readings explored.                                          *)
v_update_temp(m, raw) ==
    [m EXCEPT !.f_temp_F = ((u16_R_DIVIDER * raw) % cfg.wrap) \div (u16_ANALOG_MAX - raw)]

(* v_update_current, lines 221-230, in tenths of a milliamp, rounded down:   *)
(* (raw * 5 / 1023 - 0.25) * 1250 - 25.4                                     *)
v_update_current(m, raw) ==
    [m EXCEPT !.f_current_mA = ((raw * 62500) \div u16_ANALOG_MAX) - 3125 - 254]

(* v_log_data, lines 236-246: one record on the serial port *)
v_log_data(m) ==
    [m EXCEPT !.serial.records = @ + 1, !.ev.sampled = TRUE]

-----------------------------------------------------------------------------
(* loop(), lines 107-136: the settle gate and the validator *)

loop_settle_validate_FallThrough(m, now, sensed) ==
    LET g == IF m.b_shutter_just_changed /\ m.u32_shutter_toggle_timeout <= now
             THEN [m EXCEPT !.b_shutter_just_changed = FALSE, !.ev.cleared = TRUE]
             ELSE m
    IN  IF (~g.b_shutter_just_changed) /\ g.u32_validation_timeout <= now
        THEN IF ~b_validate_shutter_state(g, sensed)
             THEN [g EXCEPT !.ev.compared = TRUE, !.serial.fatal = @ + 1, !.pc = "halted"]
             ELSE [g EXCEPT !.ev.compared = TRUE,
                            !.u32_validation_timeout = Add32(@, cfg.val_period)]
        ELSE g

loop_settle_validate(m, now, sensed) ==
    IF m.b_shutter_just_changed
    THEN IF m.u32_shutter_toggle_timeout <= now
         THEN [m EXCEPT !.b_shutter_just_changed = FALSE, !.ev.cleared = TRUE]
         ELSE m
    ELSE IF m.u32_validation_timeout <= now
         THEN IF ~b_validate_shutter_state(m, sensed)
              THEN [m EXCEPT !.ev.compared = TRUE, !.serial.fatal = @ + 1, !.pc = "halted"]
              ELSE [m EXCEPT !.ev.compared = TRUE,
                             !.u32_validation_timeout = Add32(@, cfg.val_period)]
         ELSE m

(* loop(), lines 138-152: the sampler; raw = <<temperature, current>> readings *)

loop_sample_FromNow(m, now, raw) ==
    IF m.u32_sampling_timeout <= now
    THEN [v_log_data(v_update_current(v_update_temp(m, raw[1]), raw[2]))
            EXCEPT !.u32_sampling_timeout = Add32(now, cfg.sample_period)]
    ELSE m

loop_sample_Gated(m, now, raw) ==
    IF (~m.b_shutter_just_changed) /\ m.u32_sampling_timeout <= now
    THEN [v_log_data(v_update_current(v_update_temp(m, raw[1]), raw[2]))
            EXCEPT !.u32_sampling_timeout = Add32(@, cfg.sample_period)]
    ELSE m

loop_sample(m, now, raw) ==
    IF m.u32_sampling_timeout <= now
    THEN [v_log_data(v_update_current(v_update_temp(m, raw[1]), raw[2]))
            EXCEPT !.u32_sampling_timeout = Add32(@, cfg.sample_period)]
    ELSE m

-----------------------------------------------------------------------------
(* v_shutter_state_machine, lines 272-347, one operator per case *)

(* case Stage1, lines 281-291 *)
case_Stage1_NoOpen(m, now) ==
    [m EXCEPT !.u32_long_toggle_timer = Add32(now, cfg.long_time),
              !.CurrentState = "Stage2"]

case_Stage1(m, now) ==
    [v_open_shutter([m EXCEPT !.u32_long_toggle_timer = Add32(now, cfg.long_time)], now)
        EXCEPT !.CurrentState = "Stage2"]

case_Stage2_NoWait(m, now) ==
    LET t == v_toggle(m, now)
    IN  [t EXCEPT !.u32_short_toggle_timer = Add32(now, cfg.short_time),
                  !.u8_toggle_counter = (@ + 1) % TwoTo8,
                  !.CurrentState = "Stage3"]

(* case Stage2, lines 293-311 *)
case_Stage2(m, now) ==
    IF m.u32_long_toggle_timer <= now
    THEN LET t == v_toggle(m, now)
         IN  [t EXCEPT !.u32_short_toggle_timer = Add32(now, cfg.short_time),
                       !.u8_toggle_counter = (@ + 1) % TwoTo8,
                       !.CurrentState = "Stage3"]
    ELSE m

case_Stage3_AtLeast(m, now) ==
    IF m.u32_short_toggle_timer <= now
    THEN LET t == v_toggle(m, now)
             c == (t.u8_toggle_counter + 1) % TwoTo8
             r == IF c >= cfg.thresh
                  THEN [t EXCEPT !.u8_toggle_counter = 0, !.CurrentState = "Stage4"]
                  ELSE [t EXCEPT !.u8_toggle_counter = c]
         IN  [r EXCEPT !.u32_short_toggle_timer = Add32(now, cfg.short_time)]
    ELSE m

case_Stage3_DriftFree(m, now) ==
    IF m.u32_short_toggle_timer <= now
    THEN LET t == v_toggle(m, now)
             c == (t.u8_toggle_counter + 1) % TwoTo8
             r == IF c > cfg.thresh
                  THEN [t EXCEPT !.u8_toggle_counter = 0, !.CurrentState = "Stage4"]
                  ELSE [t EXCEPT !.u8_toggle_counter = c]
         IN  [r EXCEPT !.u32_short_toggle_timer = Add32(@, cfg.short_time)]
    ELSE m

case_Stage3_RearmElse(m, now) ==
    IF m.u32_short_toggle_timer <= now
    THEN LET t == v_toggle(m, now)
             c == (t.u8_toggle_counter + 1) % TwoTo8
         IN  IF c > cfg.thresh
             THEN [t EXCEPT !.u8_toggle_counter = 0, !.CurrentState = "Stage4"]
             ELSE [t EXCEPT !.u8_toggle_counter = c,
                            !.u32_short_toggle_timer = Add32(now, cfg.short_time)]
    ELSE m

(* case Stage3, lines 313-335; u8_toggle_counter is a uint8_t *)
case_Stage3_NoReset(m, now) ==
    IF m.u32_short_toggle_timer <= now
    THEN LET t == v_toggle(m, now)
             c == (t.u8_toggle_counter + 1) % TwoTo8
             r == IF c > cfg.thresh
                  THEN [t EXCEPT !.u8_toggle_counter = c, !.CurrentState = "Stage4"]
                  ELSE [t EXCEPT !.u8_toggle_counter = c]
         IN  [r EXCEPT !.u32_short_toggle_timer = Add32(now, cfg.short_time)]
    ELSE m

case_Stage3_Late(m, now) ==
    IF m.u32_short_toggle_timer < now
    THEN LET t == v_toggle(m, now)
             c == (t.u8_toggle_counter + 1) % TwoTo8
             r == IF c > cfg.thresh
                  THEN [t EXCEPT !.u8_toggle_counter = 0, !.CurrentState = "Stage4"]
                  ELSE [t EXCEPT !.u8_toggle_counter = c]
         IN  [r EXCEPT !.u32_short_toggle_timer = Add32(now, cfg.short_time)]
    ELSE m

case_Stage3(m, now) ==
    IF m.u32_short_toggle_timer <= now
    THEN LET t == v_toggle(m, now)
             c == (t.u8_toggle_counter + 1) % TwoTo8
             r == IF c > cfg.thresh
                  THEN [t EXCEPT !.u8_toggle_counter = 0, !.CurrentState = "Stage4"]
                  ELSE [t EXCEPT !.u8_toggle_counter = c]
         IN  [r EXCEPT !.u32_short_toggle_timer = Add32(now, cfg.short_time)]
    ELSE m

case_Stage4_Stuck(m, now) ==
    IF m.u32_short_toggle_timer <= now
    THEN [m EXCEPT !.CurrentState = "Stage5"]
    ELSE m

(* case Stage4, lines 337-345 *)
case_Stage4(m, now) ==
    IF m.u32_short_toggle_timer <= now
    THEN [m EXCEPT !.CurrentState = "Stage1"]
    ELSE m

(* the switch of line 278; no case matches Stage5 *)
v_shutter_state_machine(m, now) ==
    CASE m.CurrentState = "Stage1" -> case_Stage1(m, now)
      [] m.CurrentState = "Stage2" -> case_Stage2(m, now)
      [] m.CurrentState = "Stage3" -> case_Stage3(m, now)
      [] m.CurrentState = "Stage4" -> case_Stage4(m, now)
      [] OTHER -> m

-----------------------------------------------------------------------------
loop_NoSpin(m, now, sensed, raw) ==
    LET a == loop_settle_validate(m, now, sensed)
    IN  v_shutter_state_machine(loop_sample([a EXCEPT !.pc = "loop"], now, raw), now)

(* loop(), lines 105-156; the while(true) of line 127 ends the pass *)
loop(m, now, sensed, raw) ==
    LET a == loop_settle_validate(m, now, sensed)
    IN  IF a.pc = "halted"
        THEN a
        ELSE v_shutter_state_machine(loop_sample(a, now, raw), now)

(* setup(), lines 67-99 *)
setup(m, now) ==
    LET h == [m EXCEPT !.serial.header = @ + 1]
        o == v_open_shutter(h, now)
    IN  [o EXCEPT !.u32_validation_timeout = Add32(now, cfg.val_period),
                  !.u32_sampling_timeout = Add32(now, cfg.sample_period),
                  !.CurrentState = "Stage1",
                  !.pc = "loop"]

-----------------------------------------------------------------------------
(* The state after the static initialisers of lines 41-61 and 274-276, at    *)
(* the call of setup().                                                      *)
Boot(configs, boots, beams) ==
    /\ pc = "setup"
    /\ clock \in boots
    /\ cfg \in configs
    /\ b_SB_shutter_open = TRUE
    /\ b_shutter_just_changed = FALSE
    /\ u32_shutter_toggle_timeout = 0
    /\ u32_validation_timeout = 0
    /\ u32_sampling_timeout = 0
    /\ u32_consecutive_successes = 0
    /\ f_temp_F = 0
    /\ f_current_mA = 0
    /\ CurrentState = "Stage1"
    /\ u32_long_toggle_timer = 0
    /\ u32_short_toggle_timer = 0
    /\ u8_toggle_counter = 0
    /\ solenoid = [level |-> FALSE, writes |-> 0]
    /\ serial = [header |-> 0, records |-> 0, fatal |-> 0]
    /\ beam \in beams
    /\ ev = [now |-> 0, pending |-> FALSE, stage |-> "Stage1", sensed |-> TRUE,
             short_timer |-> 0, commanded |-> TRUE, cleared |-> FALSE,
             compared |-> FALSE, sampled |-> FALSE, cmd |-> "none"]
    /\ burst = 0
    /\ cycles = 0
    /\ matches = 0
    /\ t_setup = 0
    /\ last_compare = -1

(* setup() runs at millis() = clock; d ms later loop() is first called *)
DoSetup(d, limit) ==
    /\ pc = "setup"
    /\ clock + d <= limit
    /\ Store(setup([Mem EXCEPT !.ev = NoEvent], clock))
    /\ clock' = clock + d
    /\ t_setup' = clock
    /\ UNCHANGED <<cfg, burst, cycles, matches, last_compare>>

(* one pass of loop() at millis() = clock; d ms later the next pass begins. *)
(* digitalRead(BEAMBREAK_PIN) returns beam; raw are the analogRead values.  *)
DoLoop(d, raw, limit) ==
    /\ pc = "loop"
    /\ clock + d <= limit
    /\ LET m == loop([Mem EXCEPT !.ev = NoEvent], clock, beam, raw)
       IN  /\ Store(m)
           /\ burst' = IF CurrentState = "Stage2" /\ m.CurrentState = "Stage3" THEN 0
                       ELSE IF CurrentState = "Stage3" /\ m.solenoid.writes # solenoid.writes
                            THEN burst + 1
                            ELSE burst
           /\ cycles' = IF CurrentState = "Stage4" /\ m.CurrentState = "Stage1"
                        THEN cycles + 1 ELSE cycles
           /\ matches' = IF m.u32_validation_timeout # u32_validation_timeout
                         THEN matches + 1 ELSE matches
           /\ last_compare' = IF m.ev.compared THEN clock ELSE last_compare
    /\ clock' = clock + d
    /\ UNCHANGED <<cfg, t_setup>>

(* while(true); of line 127: time passes, nothing else happens *)
DoSpin(d, limit) ==
    /\ pc = "halted"
    /\ d > 0
    /\ clock + d <= limit
    /\ clock' = clock + d
    /\ UNCHANGED <<pc, cfg, b_SB_shutter_open, b_shutter_just_changed,
                   u32_shutter_toggle_timeout, u32_validation_timeout,
                   u32_sampling_timeout, u32_consecutive_successes, f_temp_F,
                   f_current_mA, CurrentState, u32_long_toggle_timer,
                   u32_short_toggle_timer, u8_toggle_counter, solenoid, serial, ev,
                   burst, cycles, matches, t_setup, last_compare>>

-----------------------------------------------------------------------------
(* Spec: small periods, any tick spacing up to MaxStep, any sensor value.    *)

AdcReadings == {<<200, 600>>, <<600, 200>>}

Configs ==
    { Config(2, 2, 4, 1, 3, 3),      \* fast period < settle time, as in the source
      Config(1, 1, 2, 2, 2, 3) }     \* fast period > settle time

Init == Boot(Configs, 0..MaxBoot, BOOLEAN)

Setup ==
    /\ \E d \in 0..MaxStep : DoSetup(d, MaxTime)
    /\ beam' \in BOOLEAN

Loop ==
    /\ \E d \in 0..MaxStep, raw \in AdcReadings : DoLoop(d, raw, MaxTime)
    /\ beam' \in BOOLEAN

Spin ==
    /\ \E d \in 1..MaxStep : DoSpin(d, MaxTime)
    /\ beam' \in BOOLEAN

Next == Setup \/ Loop \/ Spin

Spec == Init /\ [][Next]_vars

-----------------------------------------------------------------------------
(* The beam-break sensor follows the commanded state: every comparison finds *)
(* a match.                                                                  *)
(* the three orders of SHORT_TOGGLE_TIME and SHUTTER_WAIT_TIMEOUT_MS, under  *)
(* the steps of Spec                                                         *)
SettleConfigs ==
    Configs \cup { Config(2, 2, 3, 2, 2, 3) }     \* fast period = settle time

InitSettle == Boot(SettleConfigs, 0..MaxBoot, BOOLEAN)

SpecSettle == InitSettle /\ [][Next]_vars

(* one pass of loop() per millisecond, fast period < settle time, and a      *)
(* beam-break sensor that reads "open" at every digitalRead                  *)
StuckConfigs == { SourceConfig, Config(2, 2, 4, 1, 3, 3) }

InitStuckOpen == Boot(StuckConfigs, {0}, {TRUE})

SetupStuckOpen ==
    /\ DoSetup(1, StuckTime)
    /\ beam' = TRUE

LoopStuckOpen ==
    /\ DoLoop(1, <<200, 600>>, StuckTime)
    /\ beam' = TRUE

NextStuckOpen == SetupStuckOpen \/ LoopStuckOpen

SpecStuckOpen == InitStuckOpen /\ [][NextStuckOpen]_vars

(* the source's constants, one pass of loop() per millisecond, any sensor    *)
InitSource == Boot({SourceConfig}, 0..MaxBoot, BOOLEAN)

SetupSource ==
    /\ DoSetup(1, SourceTime)
    /\ beam' \in BOOLEAN

LoopSource ==
    /\ DoLoop(1, <<200, 600>>, SourceTime)
    /\ beam' \in BOOLEAN

SpinSource ==
    /\ DoSpin(1, SourceTime)
    /\ beam' \in BOOLEAN

NextSource == SetupSource \/ LoopSource \/ SpinSource

SpecSource == InitSource /\ [][NextSource]_vars

(* the last milliseconds before millis() wraps: the timer sums wrap before   *)
(* the clock does                                                            *)
WrapConfigs ==
    { [Config(2, 2, 4, 1, 3, 3) EXCEPT !.wrap = WrapModulus],
      [Config(5, 1, 2, 2, 2, 3) EXCEPT !.wrap = WrapModulus] }

(* the last pass is at WrapModulus - 1; the clock of the pass after it is    *)
(* WrapModulus, where no pass is taken                                       *)
WrapLimit == WrapModulus

InitWrap == Boot(WrapConfigs, {WrapModulus - WrapLead}, BOOLEAN)

SetupWrap ==
    /\ \E d \in 0..MaxStep : DoSetup(d, WrapLimit)
    /\ beam' \in BOOLEAN

LoopWrap ==
    /\ \E d \in 1..MaxStep, raw \in AdcReadings : DoLoop(d, raw, WrapLimit)
    /\ beam' \in BOOLEAN

SpinWrap ==
    /\ \E d \in 1..MaxStep : DoSpin(d, WrapLimit)
    /\ beam' \in BOOLEAN

NextWrap == SetupWrap \/ LoopWrap \/ SpinWrap

SpecWrap == InitWrap /\ [][NextWrap]_vars

SensorAgrees == beam' = b_SB_shutter_open'

(* SpecBurst: bursts of 1, 2, 3, 254 and 255 fast toggles, the sensor        *)
(* agreeing.  The short bursts are explored with a pass every 1..MaxStep ms  *)
(* up to LiveTime, the long ones with a pass every millisecond up to         *)
(* BurstTime.                                                                *)

BurstThresholds == {1, 2, 3, TwoTo8 - 2, TwoTo8 - 1}

BurstConfigs == { Config(1, t, 1, 1, 2, 3) : t \in BurstThresholds }

LongBurst == cfg.thresh > 3

BurstStep == IF LongBurst THEN 1 ELSE MaxStep

BurstLimit == IF LongBurst THEN BurstTime ELSE LiveTime

InitBurst == Boot(BurstConfigs, {0}, {TRUE})

SetupBurst ==
    /\ \E d \in 0..BurstStep : DoSetup(d, BurstLimit)
    /\ SensorAgrees

LoopBurst ==
    /\ \E d \in 1..BurstStep : DoLoop(d, <<200, 600>>, BurstLimit)
    /\ SensorAgrees

NextBurst == SetupBurst \/ LoopBurst

SpecBurst ==
    InitBurst /\ [][NextBurst]_vars /\ WF_vars(SetupBurst) /\ WF_vars(LoopBurst)

(* SpecScenario: the timing scenario of the specification, section 8: slow   *)
(* 1000, fast 12, settle 20, threshold 3, setup() and the first pass at t=0, *)
(* then one pass per millisecond, the sensor agreeing.                       *)

ScenarioConfig == Config(20, 3, 1000, 12, VALIDATION_LOOP_PERIOD, SAMPLE_LOOP_PERIOD)

InitScenario == Boot({ScenarioConfig}, {0}, {TRUE})

SetupScenario ==
    /\ DoSetup(0, ScenarioTime)
    /\ SensorAgrees

LoopScenario ==
    /\ DoLoop(1, <<200, 600>>, ScenarioTime)
    /\ SensorAgrees

NextScenario == SetupScenario \/ LoopScenario

SpecScenario == InitScenario /\ [][NextScenario]_vars

(* SpecLive: the configurations of Spec, the sensor agreeing, passes that    *)
(* keep occurring 1..MaxStep ms apart (up to LiveTime).                      *)

InitLive == Boot(Configs, {0}, {TRUE})

SetupLive ==
    /\ \E d \in 0..MaxStep : DoSetup(d, LiveTime)
    /\ SensorAgrees

LoopLive ==
    /\ \E d \in 1..MaxStep : DoLoop(d, <<200, 600>>, LiveTime)
    /\ SensorAgrees

NextLive == SetupLive \/ LoopLive

SpecLive ==
    /\ InitLive /\ [][NextLive]_vars
    /\ WF_vars(SetupLive)
    /\ WF_vars(LoopLive)

-----------------------------------------------------------------------------
(* Shorthands for the claims *)

Stages == {"Stage1", "Stage2", "Stage3", "Stage4"}     \* Init, SlowWait, FastWait, Cooldown

ProgramState ==
    <<b_SB_shutter_open, b_shutter_just_changed, u32_shutter_toggle_timeout,
      u32_validation_timeout, u32_sampling_timeout, u32_consecutive_successes,
      f_temp_F, f_current_mA, CurrentState, u32_long_toggle_timer,
      u32_short_toggle_timer, u8_toggle_counter>>

(* what the sampler and the cycle state machine write *)
SamplerAndCycleState ==
    <<b_SB_shutter_open, b_shutter_just_changed, u32_shutter_toggle_timeout,
      u32_sampling_timeout, u32_consecutive_successes, f_temp_F, f_current_mA,
      CurrentState, u32_long_toggle_timer, u32_short_toggle_timer,
      u8_toggle_counter, solenoid>>

-----------------------------------------------------------------------------
(* C1 - Settle exclusivity: a pass of loop() that starts with                *)
(* b_shutter_just_changed true makes no comparison, leaves the validation    *)
(* deadline alone, prints no fatal message and does not halt; also the pass  *)
(* in which the settle gate clears the flag.                                 *)
C1_SettleExclusivity ==
    [][ (pc = "loop" /\ b_shutter_just_changed) =>
          /\ ~ev'.compared
          /\ u32_validation_timeout' = u32_validation_timeout
          /\ serial'.fatal = serial.fatal
          /\ pc' = "loop" ]_vars

(* a pass that cleared the flag while the validation deadline had elapsed and *)
(* the sensor disagreed: it compared nothing                                  *)
C1_Witness ==
    /\ pc = "loop"
    /\ ev.pending /\ ev.cleared
    /\ u32_validation_timeout <= ev.now
    /\ ev.sensed # b_SB_shutter_open
    /\ ev.cmd = "none"
    /\ ~ev.compared

(* C2 - Fail-stop: the system is halted exactly when one fatal message has   *)
(* been printed; the pass that detects the mismatch runs neither the sampler *)
(* nor the cycle state machine; and once halted nothing but the clock (and   *)
(* the outside world) changes.                                               *)
C2_FailStop ==
    /\ [](serial.fatal = IF pc = "halted" THEN 1 ELSE 0)
    /\ [][ /\ (pc = "halted" =>
                 /\ pc' = "halted"
                 /\ UNCHANGED <<ProgramState, solenoid, serial, ev, burst, cycles, matches>>
                 /\ UNCHANGED last_compare)
           /\ (pc = "loop" /\ pc' = "halted" =>
                 /\ ev'.compared /\ ~ev'.sampled /\ ev'.cmd = "none"
                 /\ serial'.records = serial.records
                 /\ UNCHANGED SamplerAndCycleState
                 /\ UNCHANGED u32_validation_timeout) ]_vars

(* halted in a pass where both a sample and a fast toggle were due, and the  *)
(* clock has since moved on                                                  *)
C2_Witness ==
    /\ pc = "halted"
    /\ clock > ev.now + 1
    /\ u32_sampling_timeout <= ev.now
    /\ CurrentState = "Stage3" /\ u32_short_toggle_timer <= ev.now
    /\ serial.records > 0

(* C3 - Mismatch detection: a pass that starts not halted, with              *)
(* b_shutter_just_changed false, the validation deadline elapsed and the     *)
(* sensor differing from the commanded state prints the fatal message and    *)
(* halts in that pass without commanding the shutter; in particular with the *)
(* shutter commanded open and the sensor reading closed.                     *)
C3_MismatchHalts ==
    [][ (/\ pc = "loop"
         /\ ~b_shutter_just_changed
         /\ u32_validation_timeout <= clock
         /\ beam # b_SB_shutter_open) =>
          /\ pc' = "halted"
          /\ serial'.fatal = serial.fatal + 1
          /\ solenoid' = solenoid
          /\ b_SB_shutter_open' = b_SB_shutter_open ]_vars

(* commanded open, sensed closed, settle cleared in an earlier pass, halted  *)
(* in the first pass with the validation deadline elapsed                    *)
C3_Witness ==
    /\ pc = "halted"
    /\ b_SB_shutter_open /\ ~ev.sensed
    /\ ~ev.pending
    /\ ev.now > u32_shutter_toggle_timeout
    /\ ev.now >= u32_validation_timeout
    /\ matches >= 1
    /\ serial.fatal = 1

(* C4 - Drift-free validation and sampling deadlines: a match adds exactly   *)
(* the validation period to u32_validation_timeout, a sample adds exactly    *)
(* the sample period to u32_sampling_timeout, nothing else changes them      *)
(* after setup(); so after K matches (K samples) the deadline is its value   *)
(* at setup() plus K periods, whatever the clock.                            *)
C4_DriftFree ==
    /\ [](pc # "setup" =>
            /\ u32_validation_timeout = t_setup + cfg.val_period * (matches + 1)
            /\ u32_sampling_timeout = t_setup + cfg.sample_period * (serial.records + 1))
    /\ [][ pc = "loop" =>
            /\ u32_validation_timeout' =
                  IF ev'.compared /\ pc' = "loop"
                  THEN u32_validation_timeout + cfg.val_period
                  ELSE u32_validation_timeout
            /\ u32_sampling_timeout' =
                  IF serial'.records # serial.records
                  THEN u32_sampling_timeout + cfg.sample_period
                  ELSE u32_sampling_timeout
            /\ serial'.records - serial.records = IF ev'.sampled THEN 1 ELSE 0 ]_vars

(* a pass that ran late, matched and sampled: both deadlines differ from     *)
(* now + period                                                              *)
C4_Witness ==
    /\ pc = "loop"
    /\ ev.compared /\ ev.sampled
    /\ matches >= 2 /\ serial.records >= 2
    /\ u32_validation_timeout < ev.now + cfg.val_period
    /\ u32_sampling_timeout < ev.now + cfg.sample_period

(* C5 as stated - the fast deadline consumed in Stage3 is re-armed as the    *)
(* previous deadline plus the fast period.                                   *)
C5_AsStated ==
    [][ (pc = "loop" /\ CurrentState = "Stage3"
         /\ u32_short_toggle_timer' # u32_short_toggle_timer) =>
          u32_short_toggle_timer' = u32_short_toggle_timer + cfg.short_time ]_vars

(* C5 amended - the slow and the fast deadline are armed as millis() plus    *)
(* the period: the slow one in Stage1, the fast one with the Stage2 toggle   *)
(* and with every Stage3 toggle; no other pass changes them.                 *)
C5_ArmedFromNow ==
    [][ pc = "loop" =>
          /\ u32_long_toggle_timer' =
                IF CurrentState = "Stage1" /\ pc' = "loop"
                THEN clock + cfg.long_time
                ELSE u32_long_toggle_timer
          /\ u32_short_toggle_timer' =
                IF CurrentState \in {"Stage2", "Stage3"} /\ ev'.cmd = "toggle"
                THEN clock + cfg.short_time
                ELSE u32_short_toggle_timer ]_vars

(* a Stage3 toggle in a pass later than the fast deadline, which stays in    *)
(* Stage3: the new deadline is now + period, past old deadline + period      *)
C5_Witness ==
    /\ pc = "loop"
    /\ ev.stage = "Stage3" /\ CurrentState = "Stage3" /\ ev.cmd = "toggle"
    /\ ev.now > ev.short_timer
    /\ u32_short_toggle_timer = ev.now + cfg.short_time
    /\ u32_short_toggle_timer > ev.short_timer + cfg.short_time

C7_BurstSizing ==
    /\ burst <= cfg.thresh
    /\ (CurrentState = "Stage4" /\ ev.stage = "Stage3" => burst = cfg.thresh)

(* Longest time a burst can take: every toggle comes at most                 *)
(* short_time + BurstStep - 1 after the one before.                          *)
BurstHorizon == BurstLimit - (cfg.thresh + 1) * (cfg.short_time + BurstStep - 1)

(* Burst sizing within the range of the counter - for a threshold from 1 to  *)
(* 254 (u8_toggle_counter is a uint8_t compared with "> threshold"): Stage3  *)
(* is entered with the counter at 1, the counter then is 1 + the toggles     *)
(* done in Stage3, the transition to Stage4 is taken by toggle number        *)
(* threshold exactly, and (the sensor agreeing, the clock advancing) it is   *)
(* taken.                                                                    *)
BurstSizingU8 ==
    /\ [](cfg.thresh < TwoTo8 - 1 /\ CurrentState = "Stage3" =>
            burst < cfg.thresh /\ u8_toggle_counter = burst + 1)
    /\ [][ cfg.thresh < TwoTo8 - 1 =>
            /\ (CurrentState = "Stage2" /\ CurrentState' = "Stage3" =>
                  u8_toggle_counter' = 1 /\ burst' = 0)
            /\ (CurrentState = "Stage3" /\ CurrentState' = "Stage4" =>
                  burst' = cfg.thresh /\ burst = cfg.thresh - 1) ]_vars
    /\ ((cfg.thresh < TwoTo8 - 1 /\ CurrentState = "Stage3" /\ clock <= BurstHorizon)
          ~> (CurrentState = "Stage4" /\ burst = cfg.thresh))

(* Stage4 entered after a burst of 254 toggles *)
BurstSizingU8_Witness ==
    /\ CurrentState = "Stage4" /\ ev.stage = "Stage3"
    /\ cfg.thresh = TwoTo8 - 2
    /\ burst = cfg.thresh
    /\ u8_toggle_counter = 0

(* C8 - Timing scenario: the shutter is opened at t=0 with the settle        *)
(* deadline 20; v_toggle is called exactly at t=1000 (closed, settle         *)
(* deadline 1020), 1012 (open), 1024 (closed) and 1036 (open, counter reset, *)
(* Stage4); Stage4 lasts until the pass at t=1048, which goes to Stage1.     *)
C8_Scenario ==
    LET after(t) == pc = "loop" /\ ev.now = t /\ clock = t + 1
    IN  /\ (pc = "loop" /\ ev.now = 0 =>
              /\ ev.cmd = "open" /\ b_SB_shutter_open
              /\ u32_shutter_toggle_timeout = 20)
        /\ (after(0) => CurrentState = "Stage2" /\ u32_long_toggle_timer = 1000)
        /\ (pc = "loop" /\ ev.cmd = "toggle" => ev.now \in {1000, 1012, 1024, 1036})
        /\ (pc = "loop" /\ ev.cmd = "open" /\ ev.now <= 1048 => ev.now = 0)
        /\ (after(1000) =>
              /\ ev.cmd = "toggle" /\ ~b_SB_shutter_open
              /\ u32_shutter_toggle_timeout = 1020
              /\ CurrentState = "Stage3" /\ u8_toggle_counter = 1)
        /\ (after(1012) =>
              /\ ev.cmd = "toggle" /\ b_SB_shutter_open
              /\ CurrentState = "Stage3" /\ u8_toggle_counter = 2)
        /\ (after(1024) =>
              /\ ev.cmd = "toggle" /\ ~b_SB_shutter_open
              /\ CurrentState = "Stage3" /\ u8_toggle_counter = 3)
        /\ (after(1036) =>
              /\ ev.cmd = "toggle" /\ b_SB_shutter_open
              /\ CurrentState = "Stage4" /\ u8_toggle_counter = 0)
        /\ (pc = "loop" /\ clock = ev.now + 1 /\ ev.now >= 1036 /\ ev.now < 1048 =>
              CurrentState = "Stage4")
        /\ (after(1048) =>
              /\ ev.stage = "Stage4" /\ CurrentState = "Stage1" /\ ev.cmd = "none"
              /\ solenoid.writes = 6)

(* the pass at t=1048 has run *)
C8_Witness ==
    /\ pc = "loop" /\ ev.now = 1048 /\ clock = 1049
    /\ CurrentState = "Stage1"
    /\ b_SB_shutter_open

(* Longest time one whole cycle can take, from any point of it *)
CycleBound ==
    cfg.long_time + (cfg.thresh + 1) * cfg.short_time + (cfg.thresh + 2) * MaxStep

(* C10 - The cycle repeats: with the sensor agreeing, passes occurring and   *)
(* the clock advancing, the system never halts, and from every point of the  *)
(* run (that leaves the time of one cycle before the end of the explored     *)
(* clock values) Stage1 is entered again from Stage4.                        *)
C10_CycleRepeats ==
    /\ [](pc # "halted" /\ serial.fatal = 0)
    /\ (clock <= LiveTime - CycleBound)
          ~> (pc = "loop" /\ ev.stage = "Stage4" /\ CurrentState = "Stage1")

(* Stage1 entered from Stage4 for the second time *)
C10_Witness ==
    /\ pc = "loop"
    /\ cycles = 2
    /\ CurrentState = "Stage1" /\ ev.stage = "Stage4"
    /\ matches >= 2

-----------------------------------------------------------------------------
(* C11 as stated - every pass that starts not halted with the sampling       *)
(* deadline elapsed prints one record.                                       *)
C11_AsStated ==
    [][ (pc = "loop" /\ u32_sampling_timeout <= clock) =>
          serial'.records = serial.records + 1 ]_vars

(* the fields of the memory record the sampler may write *)
SamplerFrame(m) ==
    [m EXCEPT !.u32_sampling_timeout = 0, !.f_temp_F = 0, !.f_current_mA = 0,
              !.serial.records = 0, !.ev.sampled = FALSE]

(* C11 amended - Sampler independence: every pass of loop() that does not    *)
(* halt on a mismatch prints exactly one record when the sampling deadline   *)
(* has elapsed and none otherwise, whatever b_shutter_just_changed and       *)
(* CurrentState are; and the sampler writes nothing but                      *)
(* u32_sampling_timeout, the two readings and the record.                    *)
C11_SamplerIndependence ==
    /\ [](pc = "loop" =>
            LET a == loop_settle_validate([Mem EXCEPT !.ev = NoEvent], clock, beam)
            IN  \A raw \in AdcReadings :
                  LET b == loop_sample(a, clock, raw)
                  IN  /\ SamplerFrame(b) = SamplerFrame(a)
                      /\ b.serial.records - a.serial.records \in {0, 1})
    /\ [][ pc = "loop" =>
            /\ serial'.records - serial.records =
                  IF u32_sampling_timeout <= clock /\ pc' = "loop" THEN 1 ELSE 0
            /\ ev'.sampled = (serial'.records # serial.records) ]_vars

(* a record printed by a pass that began in Stage3 inside the settle window  *)
(* and toggled                                                               *)
C11_Witness ==
    /\ pc = "loop"
    /\ ev.sampled /\ ev.pending /\ ~ev.cleared
    /\ ev.stage = "Stage3" /\ ev.cmd = "toggle"
    /\ serial.records >= 2

-----------------------------------------------------------------------------
(* C12 as stated - every v_toggle and every v_open_shutter call leaves       *)
(* b_SB_shutter_open the negation of what it was.                            *)
C12_AsStated ==
    [][ solenoid'.writes # solenoid.writes =>
          b_SB_shutter_open' = ~b_SB_shutter_open ]_vars

(* C12 amended - v_toggle negates b_SB_shutter_open; v_open_shutter (in      *)
(* setup() and in Stage1) sets it to open, which negates it only when it was *)
(* closed; the solenoid pin is driven to the new state; no other step        *)
(* changes the commanded state.                                              *)
C12_CommandedState ==
    [][ LET cmd == IF solenoid'.writes = solenoid.writes THEN "none"
                   ELSE IF pc = "setup" THEN "open" ELSE ev'.cmd
        IN  /\ cmd \in {"none", "toggle", "open"}
            /\ (cmd = "toggle" => b_SB_shutter_open' = ~b_SB_shutter_open)
            /\ (cmd = "open" => b_SB_shutter_open' = TRUE)
            /\ (cmd = "none" => b_SB_shutter_open' = b_SB_shutter_open)
            /\ (cmd # "none" => solenoid'.level = b_SB_shutter_open')
            /\ (pc = "loop" /\ CurrentState = "Stage1" /\ pc' = "loop" => cmd = "open")
            /\ (pc = "loop" /\ CurrentState # "Stage1" => cmd \in {"none", "toggle"}) ]_vars

(* the forced open of Stage1 after a burst that ended closed (it flips),     *)
(* the two forced opens before it having found the shutter open already      *)
C12_Witness ==
    /\ pc = "loop"
    /\ cycles >= 1
    /\ ev.stage = "Stage1" /\ ev.cmd = "open"
    /\ ~ev.commanded /\ b_SB_shutter_open
    /\ solenoid.level

-----------------------------------------------------------------------------
(* C13 - Settle arming: every v_toggle / v_open_shutter call sets            *)
(* b_shutter_just_changed and sets u32_shutter_toggle_timeout to millis() +  *)
(* the settle time, whatever it was; the flag is cleared only by a pass of   *)
(* loop() with the timeout <= millis() (and set again if that pass commands  *)
(* the shutter); so at every pass that begins before the timeout the flag is *)
(* set.                                                                      *)
C13_SettleArming ==
    /\ [](pc # "setup" /\ clock < u32_shutter_toggle_timeout => b_shutter_just_changed)
    /\ [][ LET commanded == solenoid'.writes # solenoid.writes
           IN  /\ (commanded =>
                     /\ b_shutter_just_changed'
                     /\ u32_shutter_toggle_timeout' = clock + cfg.wait_ms)
               /\ (~commanded =>
                     u32_shutter_toggle_timeout' = u32_shutter_toggle_timeout)
               /\ (b_shutter_just_changed /\ ~b_shutter_just_changed' =>
                     /\ pc = "loop" /\ ev'.cleared
                     /\ u32_shutter_toggle_timeout <= clock)
               /\ (pc = "loop" /\ b_shutter_just_changed /\ ~commanded /\ pc' = "loop" =>
                     b_shutter_just_changed' = (clock < u32_shutter_toggle_timeout))
               /\ (~b_shutter_just_changed /\ ~commanded => ~b_shutter_just_changed') ]_vars

(* a toggle in a pass that began inside the settle window of the toggle      *)
(* before: the timeout is replaced by a later one and the flag stays set     *)
C13_Witness ==
    /\ pc = "loop"
    /\ ev.pending /\ ~ev.cleared /\ ev.cmd = "toggle"
    /\ b_shutter_just_changed
    /\ u32_shutter_toggle_timeout = ev.now + cfg.wait_ms
    /\ clock < u32_shutter_toggle_timeout

-----------------------------------------------------------------------------
(* C14 - Fixed validation poll rate: any two successive comparisons of the   *)
(* validator are at least one validation period apart in millis() time,      *)
(* also after the settle gate suppressed validation for longer than a period *)
C14_FixedPollRate ==
    [][ pc = "loop" /\ ev'.compared /\ last_compare >= 0 =>
          clock - last_compare >= cfg.val_period ]_vars

-----------------------------------------------------------------------------
(* C15 - Fast-toggle counter invariant: between passes u8_toggle_counter is  *)
(* 0 while CurrentState is Stage1, Stage2 or Stage4 and is in 1..threshold   *)
(* while CurrentState is Stage3; it goes from non-zero to zero exactly in    *)
(* the pass that takes Stage3 to Stage4.                                     *)
C15_CounterInvariant ==
    /\ [](/\ (CurrentState \in {"Stage1", "Stage2", "Stage4"} => u8_toggle_counter = 0)
          /\ (CurrentState = "Stage3" =>
                u8_toggle_counter >= 1 /\ u8_toggle_counter <= cfg.thresh))
    /\ [][ /\ (u8_toggle_counter # 0 /\ u8_toggle_counter' = 0
                 <=> CurrentState = "Stage3" /\ CurrentState' = "Stage4")
           /\ (CurrentState = "Stage2" /\ CurrentState' = "Stage3" =>
                 u8_toggle_counter' = 1)
           /\ (CurrentState = "Stage3" /\ CurrentState' = "Stage3" =>
                 u8_toggle_counter' \in {u8_toggle_counter, u8_toggle_counter + 1}) ]_vars

(* the pass after a burst of two fast toggles: the counter was 2, the stage  *)
(* is Stage4 and the counter is 0 again                                      *)
C15_Witness ==
    /\ pc = "loop"
    /\ cfg.thresh = 2
    /\ ev.stage = "Stage3" /\ ev.cmd = "toggle"
    /\ CurrentState = "Stage4"
    /\ u8_toggle_counter = 0
    /\ burst = 2

-----------------------------------------------------------------------------
(* C16 - When SHORT_TOGGLE_TIME <= SHUTTER_WAIT_TIMEOUT_MS, no pass of loop  *)
(* that begins in Stage3 compares, whatever the spacing of the passes: in    *)
(* Stage3 the settle flag is set and the short timer is not later than the   *)
(* settle timeout, so a pass that clears the flag also toggles and sets the  *)
(* flag again; such a pass never halts.                                      *)
C16_NoCompareInFastWait ==
    /\ [](cfg.short_time <= cfg.wait_ms /\ CurrentState = "Stage3" =>
            /\ pc = "loop"
            /\ b_shutter_just_changed
            /\ u32_short_toggle_timer <= u32_shutter_toggle_timeout)
    /\ [][ cfg.short_time <= cfg.wait_ms /\ pc = "loop" /\ CurrentState = "Stage3" =>
             /\ ~ev'.compared
             /\ pc' = "loop"
             /\ serial'.fatal = serial.fatal
             /\ (ev'.cleared =>
                   /\ u32_short_toggle_timer <= clock
                   /\ ev'.cmd = "toggle"
                   /\ b_shutter_just_changed') ]_vars

(* fast period = settle time: a pass in Stage3 at exactly the settle timeout *)
(* cleared the flag with the validation deadline elapsed and the sensor      *)
(* disagreeing, toggled, and stayed in Stage3 with the flag set              *)
C16_Witness ==
    /\ pc = "loop"
    /\ cfg.short_time = cfg.wait_ms
    /\ ev.stage = "Stage3" /\ CurrentState = "Stage3"
    /\ ev.pending /\ ev.cleared /\ ev.cmd = "toggle"
    /\ u32_validation_timeout <= ev.now
    /\ ev.sensed # ~b_SB_shutter_open
    /\ b_shutter_just_changed

-----------------------------------------------------------------------------
(* C17 - Stage2 is only ever entered, and stayed in, with the shutter        *)
(* commanded open, so the Stage2 toggle closes it; with one pass per         *)
(* millisecond and fast period < settle time every comparison is made in a   *)
(* pass that begins in Stage2 with the shutter commanded open; so a sensor   *)
(* that always reads "open" never halts the program, although the shutter is *)
(* commanded closed after every odd-numbered toggle of a cycle.              *)
C17_StuckOpenNeverHalts ==
    /\ [](/\ pc # "halted"
          /\ serial.fatal = 0
          /\ (CurrentState = "Stage2" => b_SB_shutter_open))
    /\ [][ /\ (CurrentState # "Stage2" /\ CurrentState' = "Stage2" =>
                 CurrentState = "Stage1" /\ b_SB_shutter_open')
           /\ (CurrentState = "Stage2" /\ CurrentState' = "Stage3" =>
                 ~b_SB_shutter_open')
           /\ (CurrentState = "Stage3" /\ solenoid'.writes # solenoid.writes =>
                 b_SB_shutter_open' = (burst' % 2 = 1))
           /\ (ev'.compared =>
                 /\ CurrentState = "Stage2"
                 /\ b_SB_shutter_open
                 /\ ev'.sensed) ]_vars

(* second cycle with the source's constants: comparisons were made, the      *)
(* burst has left the shutter commanded closed, the sensor reads open        *)
C17_Witness ==
    /\ pc = "loop"
    /\ cfg = SourceConfig
    /\ cycles >= 1
    /\ last_compare > u32_long_toggle_timer - cfg.long_time
    /\ CurrentState = "Stage3"
    /\ ~b_SB_shutter_open
    /\ beam

-----------------------------------------------------------------------------
(* the length of one cycle at one pass per millisecond: the Stage1 pass, the *)
(* slow period, threshold fast periods and the Stage4 wait of one more       *)
CycleLength == 1 + cfg.long_time + (cfg.thresh + 1) * cfg.short_time

(* C18 - Validation is never starved for a whole cycle: with the source's    *)
(* constants and one pass per millisecond, when Stage2 is left a comparison  *)
(* was made in a pass after the Stage1 pass that entered it (a pass that     *)
(* halts leaves no stage); and while the program has not halted the latest   *)
(* comparison (or setup) is never more than one cycle back, so comparisons   *)
(* keep occurring for as long as passes do.                                  *)
C18_ValidationNotStarved ==
    /\ [](pc = "loop" =>
            clock - (IF last_compare < 0 THEN t_setup ELSE last_compare) <= CycleLength)
    /\ [][ CurrentState = "Stage2" /\ CurrentState' = "Stage3" =>
             /\ pc' = "loop"
             /\ last_compare' > u32_long_toggle_timer - cfg.long_time
             /\ last_compare' <= clock ]_vars

(* the Stage2 toggle of the second cycle: the comparisons of this Stage2     *)
(* were made after validation had been shut out for the whole burst before   *)
(* it                                                                        *)
C18_Witness ==
    /\ pc = "loop"
    /\ cycles >= 1
    /\ ev.stage = "Stage2" /\ ev.cmd = "toggle"
    /\ CurrentState = "Stage3"
    /\ last_compare > u32_long_toggle_timer - cfg.long_time
    /\ matches >= 8

-----------------------------------------------------------------------------
(* C19 - Clock width: every deadline is armed as (millis() + period) modulo  *)
(* the width of the timers and tested with "deadline <= millis()".  While    *)
(* millis() itself has not wrapped, an armed deadline smaller than its       *)
(* period is one whose sum wrapped; it is then already elapsed: the settle   *)
(* flag is cleared by the very next pass, the Stage2 and Stage3 toggles are  *)
(* made by the very next pass that runs the state machine, however little    *)
(* time has passed, and a pass after that may compare although the settle    *)
(* time has not passed since the command.                                    *)
C19_WrappedDeadlines ==
    /\ [](/\ (pc # "setup" /\ u32_shutter_toggle_timeout < cfg.wait_ms =>
                 u32_shutter_toggle_timeout <= clock)
          /\ (CurrentState = "Stage2" /\ u32_long_toggle_timer < cfg.long_time =>
                 u32_long_toggle_timer <= clock)
          /\ (CurrentState \in {"Stage3", "Stage4"}
                 /\ u32_short_toggle_timer < cfg.short_time =>
                 u32_short_toggle_timer <= clock))
    /\ [][ /\ clock < cfg.wrap
           /\ (solenoid'.writes # solenoid.writes =>
                 u32_shutter_toggle_timeout' = (clock + cfg.wait_ms) % cfg.wrap)
           /\ (CurrentState' = "Stage2" /\ CurrentState # "Stage2" =>
                 u32_long_toggle_timer' = (clock + cfg.long_time) % cfg.wrap)
           /\ (CurrentState \in {"Stage2", "Stage3"}
                 /\ solenoid'.writes # solenoid.writes =>
                 u32_short_toggle_timer' = (clock + cfg.short_time) % cfg.wrap)
           /\ (pc = "loop" /\ b_shutter_just_changed
                 /\ u32_shutter_toggle_timeout < cfg.wait_ms =>
                 ev'.cleared)
           /\ (pc = "loop" /\ pc' = "loop" /\ CurrentState = "Stage2"
                 /\ u32_long_toggle_timer < cfg.long_time =>
                 ev'.cmd = "toggle" /\ CurrentState' = "Stage3")
           /\ (pc = "loop" /\ pc' = "loop" /\ CurrentState = "Stage3"
                 /\ u32_short_toggle_timer < cfg.short_time =>
                 ev'.cmd = "toggle") ]_vars

(* a comparison in a pass less than the settle time after the command that   *)
(* armed the settle timeout: the sum wrapped, the unwrapped deadline         *)
(* u32_shutter_toggle_timeout + modulus is still ahead of the pass           *)
C19_Witness ==
    /\ ev.compared
    /\ u32_shutter_toggle_timeout < cfg.wait_ms
    /\ ev.now < u32_shutter_toggle_timeout + cfg.wrap
    /\ ev.now >= u32_shutter_toggle_timeout + cfg.wrap - cfg.wait_ms

====
